---------------------------- MODULE Spec2Model ----------------------------
(***************************************************************************)
(* Model of src/server/vector_service.py:                                  *)
(*   - conduct_research (POST /api/research): agent research, vector       *)
(*     store append, blog generation, quality assessment, fact check;      *)
(*   - convert_to_word (POST /api/convert): markdown to document blocks.   *)
(* The two endpoints share no state; SpecResearch and SpecConvert are the  *)
(* specifications of each.                                                 *)
(***************************************************************************)
EXTENDS Integers, Sequences, FiniteSets, TLC

\* ------------------------------------------------------------------ bounds
NumRequests == 2      \* concurrent research requests in flight
MaxLen == 6           \* longest markdown content enumerated exhaustively

\* ------------------------------------------------------- program constants
max_iterations == 5   \* AgentExecutor.from_agent_and_tools(max_iterations=5)
MaxHeadingLevel == 9  \* min(level + 1, 9)

VARIABLES
    \* conduct_research, per request
    pc,               \* position of each request's coroutine
    topic,            \* request.topic
    chat_history,     \* what the running agent loaded from the shared memory
    iterations,       \* iterations of the running agent loop
    lookups,          \* calls made to search_tool.run by this request
    llm_log,          \* prompts conduct_research sent to llm, in order
    research_result,  \* local research_result
    doc_id,           \* local doc_id
    blog_post,        \* local blog_post
    error,            \* the exception caught at line 239, if any
    \* process-wide singletons
    memory,           \* ConversationBufferMemory: saved (input, output) turns
    collection,       \* chromadb collection "research_data": records by id
    \* convert_to_word
    cpc,              \* position of the conversion
    title,            \* request.title
    content,          \* request.content
    paragraphs,       \* request.content.split('\n\n')
    idx,              \* index of the loop variable para in paragraphs
    doc               \* blocks added to the Document so far

rvars == <<pc, topic, chat_history, iterations, lookups, llm_log,
           research_result, doc_id, blog_post, error, memory, collection>>
cvars == <<cpc, title, content, paragraphs, idx, doc>>
vars == <<rvars, cvars>>

\* =================================================== conduct_research ====
Requests == 1..NumRequests
\* request.topic: the topic does not steer conduct_research, so each request
\* carries one, alternating between the two.
RequestTopic(r) == IF r % 2 = 1 THEN "ai" ELSE "gardening tools"

Unset == "<unset>"          \* a local not yet assigned
NoId == <<"None">>
\* doc_id = os.urandom(16).hex(): 128 random bits, taken as a token that no
\* other call draws; each request draws one, so the token of request r is r's.
FreshId(r) == <<"id", r>>

SearchResults == {"live search result"}     \* what search_tool.run may return
AgentAnswers == {"agent final answer"}      \* what the agent's llm may answer
AgentStoppedMsg == "Agent stopped due to iteration limit or time limit."
GenOutputs == {"", " ", "# Post"}           \* what llm may return for a prompt

ResearchPrompt(r) == <<"Research the latest information about", topic[r]>>

\* except Exception as e: raise HTTPException(status_code=500, ...): the
\* handler is left with the exception, its locals are gone.
Raise(r, e) ==
    /\ pc' = [pc EXCEPT ![r] = "failed"]
    /\ error' = [error EXCEPT ![r] = e]
    /\ research_result' = [research_result EXCEPT ![r] = Unset]
    /\ doc_id' = [doc_id EXCEPT ![r] = NoId]
    /\ blog_post' = [blog_post EXCEPT ![r] = Unset]

\* The locals of the agent run are gone once arun returns or raises.
AgentExit(r) ==
    /\ iterations' = [iterations EXCEPT ![r] = 0]
    /\ chat_history' = [chat_history EXCEPT ![r] = <<>>]

\* Chain.prep_outputs: memory.save_context(inputs, outputs), then arun returns
\* and its value is assigned to research_result.
AgentReturn(r, text) ==
    /\ research_result' = [research_result EXCEPT ![r] = text]
    /\ memory' = Append(memory, [by |-> r, input |-> ResearchPrompt(r),
                                 output |-> text])
    /\ pc' = [pc EXCEPT ![r] = "store"]
    /\ AgentExit(r)

\* The request arrives; agent_executor.arun starts: Chain.prep_inputs loads
\* the memory variables (chat_history) of the process-wide memory.
StartResearch(r) ==
    /\ pc[r] = "idle"
    /\ topic' = [topic EXCEPT ![r] = RequestTopic(r)]
    /\ chat_history' = [chat_history EXCEPT ![r] = memory]
    /\ pc' = [pc EXCEPT ![r] = "agent"]
    /\ UNCHANGED <<iterations, lookups, llm_log, research_result, doc_id,
                   blog_post, error, memory, collection>>
    /\ UNCHANGED cvars

\* One agent iteration whose llm call (or the parse of its output) raises.
AgentLLMFail(r) ==
    /\ pc[r] = "agent"
    /\ iterations[r] < max_iterations
    /\ Raise(r, "agent llm")
    /\ AgentExit(r)
    /\ UNCHANGED <<topic, lookups, llm_log, memory, collection>>
    /\ UNCHANGED cvars

\* One agent iteration in which the llm gives its final answer, no tool used.
AgentFinalAnswer(r) ==
    /\ pc[r] = "agent"
    /\ iterations[r] < max_iterations
    /\ \E text \in AgentAnswers : AgentReturn(r, text)
    /\ UNCHANGED <<topic, lookups, llm_log, doc_id, blog_post, error,
                   collection>>
    /\ UNCHANGED cvars

\* One agent iteration that calls web_search and search_tool.run returns:
\* return_direct=True makes the tool's output the result of the run.
WebSearchOk(r) ==
    /\ pc[r] = "agent"
    /\ iterations[r] < max_iterations
    /\ lookups' = [lookups EXCEPT ![r] = @ + 1]
    /\ \E text \in SearchResults : AgentReturn(r, text)
    /\ UNCHANGED <<topic, llm_log, doc_id, blog_post, error, collection>>
    /\ UNCHANGED cvars

\* One agent iteration that calls web_search and search_tool.run raises: the
\* tool has no error handler, the exception leaves arun and is caught at 239.
WebSearchFail(r) ==
    /\ pc[r] = "agent"
    /\ iterations[r] < max_iterations
    /\ lookups' = [lookups EXCEPT ![r] = @ + 1]
    /\ Raise(r, "lookup")
    /\ AgentExit(r)
    /\ UNCHANGED <<topic, llm_log, memory, collection>>
    /\ UNCHANGED cvars

\* One agent iteration that calls fact_check or content_quality: the tool's
\* output is an observation and the loop goes on.
AgentOtherTool(r) ==
    /\ pc[r] = "agent"
    /\ iterations[r] < max_iterations
    /\ iterations' = [iterations EXCEPT ![r] = @ + 1]
    /\ UNCHANGED <<pc, topic, chat_history, lookups, llm_log, research_result,
                   doc_id, blog_post, error, memory, collection>>
    /\ UNCHANGED cvars

\* max_iterations reached: the executor returns its stopped message.
AgentIterationLimit(r) ==
    /\ pc[r] = "agent"
    /\ iterations[r] = max_iterations
    /\ AgentReturn(r, AgentStoppedMsg)
    /\ UNCHANGED <<topic, lookups, llm_log, doc_id, blog_post, error,
                   collection>>
    /\ UNCHANGED cvars

\* Mutant of StoreAdd: the topic is stored in place of the research text.
StoreAddTopicAsDocument(r) ==
    /\ pc[r] = "store"
    /\ doc_id' = [doc_id EXCEPT ![r] = FreshId(r)]
    /\ collection' = collection \cup
           {[id |-> FreshId(r), document |-> topic[r],
             topic |-> topic[r], type |-> "research"]}
    /\ pc' = [pc EXCEPT ![r] = "generate"]
    /\ UNCHANGED <<topic, chat_history, iterations, lookups, llm_log,
                   research_result, blog_post, error, memory>>
    /\ UNCHANGED cvars

\* Step 2: doc_id = os.urandom(16).hex(); collection.add(...) succeeds.
StoreAdd(r) ==
    /\ pc[r] = "store"
    /\ doc_id' = [doc_id EXCEPT ![r] = FreshId(r)]
    /\ collection' = collection \cup
           {[id |-> FreshId(r), document |-> research_result[r],
             topic |-> topic[r], type |-> "research"]}
    /\ pc' = [pc EXCEPT ![r] = "generate"]
    /\ UNCHANGED <<topic, chat_history, iterations, lookups, llm_log,
                   research_result, blog_post, error, memory>>
    /\ UNCHANGED cvars

\* Step 2: collection.add(...) raises; caught at line 239.
StoreAddFail(r) ==
    /\ pc[r] = "store"
    /\ Raise(r, "store")
    /\ UNCHANGED <<topic, chat_history, iterations, lookups, llm_log, memory, collection>>
    /\ UNCHANGED cvars

\* Mutant of GenerateBlog: the blog chain is run a second time.
GenerateBlogTwice(r) ==
    /\ pc[r] = "generate"
    /\ llm_log' = [llm_log EXCEPT ![r] = Append(Append(@, "blog"), "blog")]
    /\ \E out \in GenOutputs : blog_post' = [blog_post EXCEPT ![r] = out]
    /\ pc' = [pc EXCEPT ![r] = "quality"]
    /\ UNCHANGED <<topic, chat_history, iterations, lookups, research_result,
                   doc_id, error, memory, collection>>
    /\ UNCHANGED cvars

\* Step 3: blog_post = await blog_chain.arun({...}) returns.
GenerateBlog(r) ==
    /\ pc[r] = "generate"
    /\ llm_log' = [llm_log EXCEPT ![r] = Append(@, "blog")]
    /\ \E out \in GenOutputs : blog_post' = [blog_post EXCEPT ![r] = out]
    /\ pc' = [pc EXCEPT ![r] = "quality"]
    /\ UNCHANGED <<topic, chat_history, iterations, lookups, research_result,
                   doc_id, error, memory, collection>>
    /\ UNCHANGED cvars

\* Step 3: blog_chain.arun raises.
GenerateBlogFail(r) ==
    /\ pc[r] = "generate"
    /\ llm_log' = [llm_log EXCEPT ![r] = Append(@, "blog")]
    /\ Raise(r, "llm")
    /\ UNCHANGED <<topic, chat_history, iterations, lookups, memory, collection>>
    /\ UNCHANGED cvars

\* Step 4: quality_report = await assess_content_quality(blog_post, llm).
AssessQuality(r) ==
    /\ pc[r] = "quality"
    /\ llm_log' = [llm_log EXCEPT ![r] = Append(@, "quality")]
    /\ pc' = [pc EXCEPT ![r] = "fact_check"]
    /\ UNCHANGED <<topic, chat_history, iterations, lookups, research_result,
                   doc_id, blog_post, error, memory, collection>>
    /\ UNCHANGED cvars

\* assess_content_quality raises ToolException.
AssessQualityFail(r) ==
    /\ pc[r] = "quality"
    /\ llm_log' = [llm_log EXCEPT ![r] = Append(@, "quality")]
    /\ Raise(r, "llm")
    /\ UNCHANGED <<topic, chat_history, iterations, lookups, memory, collection>>
    /\ UNCHANGED cvars

\* Step 4: fact_check = await validate_facts(blog_post, llm); return {...}.
ValidateFacts(r) ==
    /\ pc[r] = "fact_check"
    /\ llm_log' = [llm_log EXCEPT ![r] = Append(@, "fact")]
    /\ pc' = [pc EXCEPT ![r] = "done"]
    /\ UNCHANGED <<topic, chat_history, iterations, lookups, research_result,
                   doc_id, blog_post, error, memory, collection>>
    /\ UNCHANGED cvars

\* validate_facts raises ToolException.
ValidateFactsFail(r) ==
    /\ pc[r] = "fact_check"
    /\ llm_log' = [llm_log EXCEPT ![r] = Append(@, "fact")]
    /\ Raise(r, "llm")
    /\ UNCHANGED <<topic, chat_history, iterations, lookups, memory, collection>>
    /\ UNCHANGED cvars

\* The body returned at lines 229-237 by a request that is done.
Response(r) ==
    [content |-> blog_post[r], vector_id |-> doc_id[r],
     research_data |-> research_result[r]]

InitResearch ==
    /\ pc = [r \in Requests |-> "idle"]
    /\ topic = [r \in Requests |-> Unset]
    /\ chat_history = [r \in Requests |-> <<>>]
    /\ iterations = [r \in Requests |-> 0]
    /\ lookups = [r \in Requests |-> 0]
    /\ llm_log = [r \in Requests |-> <<>>]
    /\ research_result = [r \in Requests |-> Unset]
    /\ doc_id = [r \in Requests |-> NoId]
    /\ blog_post = [r \in Requests |-> Unset]
    /\ error = [r \in Requests |-> "none"]
    /\ memory = <<>>
    /\ collection = {}
    /\ cpc = "idle"
    /\ title = <<>>
    /\ content = <<>>
    /\ paragraphs = <<>>
    /\ idx = 0
    /\ doc = <<>>

NextResearch ==
    \E r \in Requests :
        \/ StartResearch(r)
        \/ AgentLLMFail(r)
        \/ AgentFinalAnswer(r)
        \/ WebSearchOk(r)
        \/ WebSearchFail(r)
        \/ AgentOtherTool(r)
        \/ AgentIterationLimit(r)
        \/ StoreAdd(r)
        \/ StoreAddFail(r)
        \/ GenerateBlog(r)
        \/ GenerateBlogFail(r)
        \/ AssessQuality(r)
        \/ AssessQualityFail(r)
        \/ ValidateFacts(r)
        \/ ValidateFactsFail(r)

SpecResearch == InitResearch /\ [][NextResearch]_vars

\* ==================================================== convert_to_word ====
\* Strings are sequences of characters over a small alphabet.
Chars == {"#", " ", "\n", "a"}
Whitespace == {" ", "\n"}

Min(a, b) == IF a <= b THEN a ELSE b

\* s[i:] in Python, i counted from 1 here
From(s, i) == SubSeq(s, i, Len(s))

\* str.startswith(c) for a single character c
startswith(s, c) == Len(s) > 0 /\ s[1] = c

\* str.lstrip(chars) / str.rstrip(chars) / str.strip(chars)
RECURSIVE lstrip(_, _)
lstrip(s, chars) ==
    IF Len(s) > 0 /\ s[1] \in chars THEN lstrip(Tail(s), chars) ELSE s

RECURSIVE rstrip(_, _)
rstrip(s, chars) ==
    IF Len(s) > 0 /\ s[Len(s)] \in chars
    THEN rstrip(SubSeq(s, 1, Len(s) - 1), chars) ELSE s

strip(s, chars) == rstrip(lstrip(s, chars), chars)

\* str.split(): the maximal runs of non-whitespace characters, in order
RECURSIVE split(_)
split(s) ==
    LET t == lstrip(s, Whitespace)
        ends == {i \in 1..Len(t) : t[i] \in Whitespace}
        n == IF ends = {} THEN Len(t) + 1
             ELSE CHOOSE i \in ends : \A j \in ends : i <= j
    IN IF t = <<>> THEN <<>>
       ELSE <<SubSeq(t, 1, n - 1)>> \o split(From(t, n))

\* str.split('\n\n'): cut at each occurrence of the separator, leftmost
\* first, occurrences not overlapping; empty pieces are kept
RECURSIVE split_blank_lines(_)
split_blank_lines(s) ==
    LET seps == {i \in 1..(Len(s) - 1) : s[i] = "\n" /\ s[i + 1] = "\n"}
        n == CHOOSE i \in seps : \A j \in seps : i <= j
    IN IF seps = {} THEN <<s>>
       ELSE <<SubSeq(s, 1, n - 1)>> \o split_blank_lines(From(s, n + 2))

\* ' '.join(words)
RECURSIVE join(_)
join(words) ==
    IF words = <<>> THEN <<>>
    ELSE IF Len(words) = 1 THEN words[1]
    ELSE words[1] \o <<" ">> \o join(Tail(words))

\* doc.add_heading(text, level) / doc.add_paragraph(text)
Heading(level, text) == [kind |-> "Heading", level |-> level, text |-> text]
Paragraph(text) == [kind |-> "Paragraph", level |-> 0, text |-> text]

\* Mutant of IsContent: "if para:", the strip forgotten.
IsContentNoStrip(para) == para # <<>>

\* if para.strip():
IsContent(para) == strip(para, Whitespace) # <<>>

\* if para.startswith('#'):
IsHeading(para) == startswith(para, "#")

\* level = len(para.split()[0].strip('#'))
level_of(para) == Len(strip(split(para)[1], {"#"}))

\* Mutant of text_of: the slice [1:] forgotten, the '#' token kept.
text_of_all_tokens(para) == join(split(para))

\* text = ' '.join(para.split()[1:])
text_of(para) == join(Tail(split(para)))

\* doc.add_heading(text, level=min(level + 1, 9))
HeadingBlock(para) ==
    Heading(Min(level_of(para) + 1, MaxHeadingLevel), text_of(para))

\* doc.add_paragraph(para.strip())
ParagraphBlock(para) == Paragraph(strip(para, Whitespace))

\* Lines 252-261: a new Document, the title as a level 1 heading, and the
\* content split into paragraphs.
ConvertStart ==
    /\ cpc = "start"
    /\ doc' = <<Heading(1, title)>>
    /\ paragraphs' = split_blank_lines(content)
    /\ idx' = 1
    /\ cpc' = "loop"
    /\ UNCHANGED <<title, content>>
    /\ UNCHANGED rvars

\* for para in paragraphs: para.strip() is empty, nothing is added
SkipBlank ==
    /\ cpc = "loop"
    /\ idx <= Len(paragraphs)
    /\ ~IsContent(paragraphs[idx])
    /\ idx' = idx + 1
    /\ UNCHANGED <<cpc, title, content, paragraphs, doc>>
    /\ UNCHANGED rvars

\* for para in paragraphs: a heading. para.split()[0] raises IndexError when
\* para.split() is empty: the step is then not enabled.
AddHeading ==
    /\ cpc = "loop"
    /\ idx <= Len(paragraphs)
    /\ IsContent(paragraphs[idx])
    /\ IsHeading(paragraphs[idx])
    /\ split(paragraphs[idx]) # <<>>
    /\ doc' = Append(doc, HeadingBlock(paragraphs[idx]))
    /\ idx' = idx + 1
    /\ UNCHANGED <<cpc, title, content, paragraphs>>
    /\ UNCHANGED rvars

\* for para in paragraphs: a plain paragraph
AddParagraph ==
    /\ cpc = "loop"
    /\ idx <= Len(paragraphs)
    /\ IsContent(paragraphs[idx])
    /\ ~IsHeading(paragraphs[idx])
    /\ doc' = Append(doc, ParagraphBlock(paragraphs[idx]))
    /\ idx' = idx + 1
    /\ UNCHANGED <<cpc, title, content, paragraphs>>
    /\ UNCHANGED rvars

\* Lines 272-284: the loop is over, the document is saved and returned.
SaveDocument ==
    /\ cpc = "loop"
    /\ idx > Len(paragraphs)
    /\ cpc' = "done"
    /\ UNCHANGED <<title, content, paragraphs, idx, doc>>
    /\ UNCHANGED rvars

\* Every string of at most n characters
Strings(n) == UNION {[1..k -> Chars] : k \in 0..n}

\* Longer contents: "# a\n\na a", ten '#' and a word, blank lines and
\* spaces only, a '#' followed by a long word.
Examples ==
    { <<"#", " ", "a", "\n", "\n", "a", " ", "a">>,
      <<"#", "#", "#", "#", "#", "#", "#", "#", "#", "#", " ", "a">>,
      <<"\n", "\n", " ", " ", " ", "\n", "\n">>,
      <<"#", "a", "a", "a", "a", "a", "a", "a", "a", "a">> }

Contents == Strings(MaxLen) \cup Examples
Titles == {<<"a">>, <<"a", " ", "a">>}

InitConvert ==
    /\ pc = [r \in Requests |-> "idle"]
    /\ topic = [r \in Requests |-> Unset]
    /\ chat_history = [r \in Requests |-> <<>>]
    /\ iterations = [r \in Requests |-> 0]
    /\ lookups = [r \in Requests |-> 0]
    /\ llm_log = [r \in Requests |-> <<>>]
    /\ research_result = [r \in Requests |-> Unset]
    /\ doc_id = [r \in Requests |-> NoId]
    /\ blog_post = [r \in Requests |-> Unset]
    /\ error = [r \in Requests |-> "none"]
    /\ memory = <<>>
    /\ collection = {}
    /\ cpc = "start"
    /\ title \in Titles
    /\ content \in Contents
    /\ paragraphs = <<>>
    /\ idx = 0
    /\ doc = <<>>

NextConvert ==
    \/ ConvertStart
    \/ SkipBlank
    \/ AddHeading
    \/ AddParagraph
    \/ SaveDocument

SpecConvert == InitConvert /\ [][NextConvert]_vars

\* ============================================================= claims ====
\* ---- conduct_research, checked under SpecResearch

Finished(r) == pc[r] \in {"done", "failed"}

\* The request got past the store step, to the generation step.
ReachedGeneration(r) ==
    \/ pc[r] \in {"quality", "fact_check", "done"}
    \/ pc[r] = "failed" /\ error[r] = "llm"

InFlight(r) == pc[r] \in {"agent", "store", "generate", "quality", "fact_check"}

BlogCalls(r) == Len(SelectSeq(llm_log[r], LAMBDA p : p = "blog"))

IsBlankText(text) == text \in {"", " "}

\* C1: the research step never raises: whatever the lookup provider does, a
\* lookup failure never makes the research request fail (the bound of
\* MAX_RETRIES + 1 attempts is met by the code, which makes at most one).
C1_LookupFailureNeverFailsRequest ==
    \A r \in Requests :
        /\ lookups[r] <= 1
        /\ ~(pc[r] = "failed" /\ error[r] = "lookup")

\* C2: provenance: a lookup that succeeded gives research text equal to the
\* provider's result; when every lookup failed the research step still
\* yields a text, non-empty fallback content.
C2_FailedLookupYieldsFallback ==
    \A r \in Requests :
        /\ (lookups[r] > 0 /\ (pc[r] = "done" \/ (InFlight(r) /\ pc[r] # "agent"))
               => research_result[r] \in SearchResults)
        /\ (lookups[r] > 0 /\ pc[r] # "agent" /\ error[r] \in {"none", "lookup"}
               => research_result[r] # Unset /\ ~IsBlankText(research_result[r]))

\* C3: storage is best-effort: a failing collection.add is swallowed, the
\* request goes on to generation and does not fail because of the store.
C3_StoreFailureSwallowed ==
    \A r \in Requests : ~(pc[r] = "failed" /\ error[r] = "store")

\* C4: no request returns successfully with an empty or whitespace-only
\* content: a blank blog post makes the request fail.
C4_NoBlankContentReturned ==
    \A r \in Requests : pc[r] = "done" => ~IsBlankText(Response(r).content)

\* C5 as stated: a finished run that reached the generation step sent the
\* text generator exactly one prompt from that step on.
C5_GeneratorInvokedOnce ==
    \A r \in Requests :
        Finished(r) /\ ReachedGeneration(r) => Len(llm_log[r]) = 1

\* C5 as amended: a run that reached the generation step sent the blog-post
\* prompt exactly once, followed by at most the quality-assessment and the
\* fact-check prompt, in this order; a run that succeeded sent all three.
C5_BlogPromptOnceThenChecks ==
    \A r \in Requests :
        /\ ReachedGeneration(r) =>
              /\ BlogCalls(r) = 1
              /\ \E n \in 1..3 :
                    llm_log[r] = SubSeq(<<"blog", "quality", "fact">>, 1, n)
        /\ pc[r] = "done" => llm_log[r] = <<"blog", "quality", "fact">>

C5_Witness ==
    \E r \in Requests :
        pc[r] = "done" /\ Len(llm_log[r]) = 3 /\ blog_post[r] = "# Post"

\* C6: nothing an in-flight request reads from the agent's conversation
\* memory was written by another request that is in flight with it.
C6_NoSharedMemoryBetweenRequests ==
    \A r, w \in Requests :
        r # w /\ InFlight(r) /\ InFlight(w) =>
            \A i \in 1..Len(chat_history[r]) : chat_history[r][i].by # w

\* The state part of C10: once a request has sent the generator a prompt,
\* and when it has returned, the store holds exactly one record with the
\* request's vector_id, whose document is the request's research_data; no
\* prompt is sent before the append; the store holds at most one record per
\* request that got past the store step.
C10_StateInv ==
    /\ \A r \in Requests :
          (pc[r] = "done" \/ (llm_log[r] # <<>> /\ pc[r] # "failed")) =>
              /\ Response(r).vector_id # NoId
              /\ \E rec \in collection :
                    /\ rec.id = Response(r).vector_id
                    /\ rec.document = Response(r).research_data
              /\ Cardinality({rec \in collection :
                                 rec.id = Response(r).vector_id}) = 1
    /\ \A r \in Requests : pc[r] = "generate" => llm_log[r] = <<>>
    /\ Cardinality(collection) <=
          Cardinality({r \in Requests :
                          pc[r] = "generate" \/ ReachedGeneration(r)})

\* C10: the store append strictly precedes generation: a request that
\* returns successfully has a non-null vector_id, the id of a record added
\* during that request before the generator was sent a prompt, with the
\* returned research_data as its document; each request adds at most one
\* record and no record is ever changed or removed.
C10_StoreAppendPrecedesGeneration ==
    [](C10_StateInv) /\ [][collection \subseteq collection']_vars

C10_Witness ==
    \E r \in Requests :
        /\ pc[r] = "done"
        /\ Cardinality(collection) = NumRequests
        /\ \E rec \in collection :
              rec.id = doc_id[r] /\ rec.document = research_result[r]

\* ---- convert_to_word, checked under SpecConvert

\* The blocks made from the content: the document without its title heading.
Body == Tail(doc)

NonWhitespace(u) == {i \in 1..Len(u) : u[i] \notin Whitespace}
WhitespaceOnly(u) == NonWhitespace(u) = {}

\* u without the whitespace around it
Trimmed(u) ==
    LET keep == NonWhitespace(u)
        first == CHOOSE i \in keep : \A j \in keep : i <= j
        last == CHOOSE i \in keep : \A j \in keep : j <= i
    IN IF keep = {} THEN <<>> ELSE SubSeq(u, first, last)

\* The blank-line-delimited units of the content that are not whitespace
\* only, in input order.
Units == SelectSeq(split_blank_lines(content), LAMBDA u : ~WhitespaceOnly(u))

\* The length of the run of '#' that u begins with.
LeadingHashes(u) ==
    LET others == {i \in 1..Len(u) : u[i] # "#"}
    IN IF others = {} THEN Len(u)
       ELSE (CHOOSE i \in others : \A j \in others : i <= j) - 1

HashesOnly(u) == Len(u) > 0 /\ LeadingHashes(u) = Len(u)

\* C7: a unit that begins with n >= 1 '#' gives a heading of level min(n, 9).
C7_HeadingLevelIsHashCount ==
    cpc = "done" =>
        \A i \in 1..Len(Units) :
            LeadingHashes(Units[i]) >= 1 =>
                /\ i <= Len(Body)
                /\ Body[i].kind = "Heading"
                /\ Body[i].level = Min(LeadingHashes(Units[i]), 9)

\* C8: the blocks made from the content are one per unit that is not
\* whitespace-only, in input order; whitespace-only units give no block; a
\* unit that does not begin with '#' gives a paragraph of its trimmed text.
C8_OneBlockPerUnitInOrder ==
    cpc = "done" =>
        /\ Len(Body) = Len(Units)
        /\ \A i \in 1..Len(Units) :
              IF LeadingHashes(Units[i]) >= 1
              THEN i <= Len(Body) /\ Body[i].kind = "Heading"
              ELSE i <= Len(Body) /\ Body[i] = Paragraph(Trimmed(Units[i]))
        /\ ((\A i \in 1..Len(content) : content[i] \in Whitespace)
               => Body = <<>>)

C8_Witness ==
    /\ cpc = "done"
    /\ Len(paragraphs) = 3
    /\ WhitespaceOnly(paragraphs[2])
    /\ Len(Body) = 2
    /\ Body[1].kind = "Paragraph"
    /\ Body[2].kind = "Heading"

\* C9: a unit made of '#' only gives exactly one heading, with empty text;
\* the step that adds it can be taken (the conversion does not fail on it).
C9_BareHashRunIsEmptyHeading ==
    /\ cpc = "done" =>
          \A i \in 1..Len(Units) :
              HashesOnly(Units[i]) =>
                  /\ Len(Body) = Len(Units)
                  /\ Body[i].kind = "Heading"
                  /\ Body[i].text = <<>>
    /\ (cpc = "loop" /\ idx <= Len(paragraphs) /\ HashesOnly(paragraphs[idx]))
          => ENABLED AddHeading

C9_Witness ==
    /\ cpc = "done"
    /\ Len(paragraphs) = 2
    /\ HashesOnly(paragraphs[2])
    /\ Len(paragraphs[2]) = 3
    /\ Body[Len(Body)] = Heading(1, <<>>)

=============================================================================
